---- MODULE Spec2Model ----
(***************************************************************************)
(* A model of transientvariable/log-go: the process-wide default logger    *)
(* (Init / SetDefault / Default), the level-gated dispatcher (Log and      *)
(* handleEvent), the pooled Record with its attribute setters, and the     *)
(* LevelWriter.                                                            *)
(*                                                                         *)
(* The structured-event sink (zerolog) is an external collaborator.  Its   *)
(* level gate, its event finalisation and its Fatal / Panic hooks are      *)
(* modelled by the operators marked "sink" below; the process-global       *)
(* level of the sink is never set by this package and is taken to admit    *)
(* every level.                                                            *)
(***************************************************************************)
EXTENDS Integers, Sequences, FiniteSets, TLC

VARIABLES
    defaultLogger,  \* the atomic.Value holding the default *Logger
    once,           \* sync.Once guarding Init: "idle", "running", "done"
    constructed,    \* number of loggers New() has built inside Init
    alive,          \* FALSE once os.Exit has ended the process
    th,             \* per thread: position, locals of the running call
    records,        \* Record id -> contents of that Record
    recPool,        \* ids of the Records resting in recPool
    gh,             \* per thread: history of the running call (observer)
    hist,           \* process-wide history (observer)
    writers,        \* the LevelWriters built by prepareFileWriters
    sink,           \* the byte slices the wrapped io.Writer has received
    wl              \* the last WriteLevel call and its result (observer)

vars == <<defaultLogger, once, constructed, alive, th, records, recPool,
          gh, hist, writers, sink, wl>>

lifecycleVars == <<defaultLogger, once, constructed>>
poolVars == <<records, recPool>>
writerVars == <<writers, sink, wl>>

-----------------------------------------------------------------------------
(* Bounds of the model. *)

\* distinct logger instances a caller hands to SetDefault
MaxUserLoggers == 2
\* setters one Log call applies
MaxArgs == 2
\* Record instances alive at once
MaxRecords == 2
\* writes the wrapped sink receives
MaxWrites == 2
\* levels handed to prepareFileWriters
MaxWriters == 2

-----------------------------------------------------------------------------
(* level.go: the levels, by their ordinal. *)

LevelTrace == -1
LevelDebug == 0
LevelInfo == 1
LevelWarn == 2
LevelError == 3
LevelFatal == 4
LevelPanic == 5
LevelNone == 6
LevelDisabled == 7

NamedLevels ==
    {LevelTrace, LevelDebug, LevelInfo, LevelWarn, LevelError, LevelFatal,
     LevelPanic}

Levels == NamedLevels \cup {LevelNone, LevelDisabled}

-----------------------------------------------------------------------------
(* The default logger. *)

\* the zero atomic.Value: Load() returns a nil interface
Unset == [kind |-> "unset", id |-> 0, level |-> LevelNone]
\* a nil *Logger argument
NilLogger == [kind |-> "nil", id |-> 0, level |-> LevelNone]

\* New(options...): the level named by the option, info by default
New(optLevel, n) ==
    [kind |-> "auto", id |-> n,
     level |-> CASE optLevel = "debug" -> LevelDebug
                 [] optLevel = "error" -> LevelError
                 [] optLevel = "fatal" -> LevelFatal
                 [] optLevel = "panic" -> LevelPanic
                 [] optLevel = "trace" -> LevelTrace
                 [] optLevel = "warn" -> LevelWarn
                 [] OTHER -> LevelInfo]

\* loggers built by the caller (a Logger is a zerolog.Logger: any level)
UserLogger(i, l) == [kind |-> "user", id |-> i, level |-> l]

\* the arguments of SetDefault in the lifecycle runs: instances matter there
LifecycleLoggers ==
    {UserLogger(i, LevelDebug) : i \in 1..MaxUserLoggers} \cup {NilLogger}

\* the arguments of SetDefault in the dispatch runs: levels matter there
DispatchLoggers == {UserLogger(1, l) : l \in Levels} \cup {NilLogger}

IsLogger(v) == v.kind \in {"auto", "user"}

NoError == "nil"
ErrNilLogger == "log: default logger cannot be nil"

SetDefault_storesNil(cur, logger) ==
    [value |-> logger, err |-> IF logger = NilLogger THEN ErrNilLogger ELSE NoError]

SetDefault_keepsFirst(cur, logger) ==
    IF logger = NilLogger
    THEN [value |-> cur, err |-> ErrNilLogger]
    ELSE [value |-> IF cur.kind = "unset" THEN logger ELSE cur, err |-> NoError]

\* SetDefault(logger): the new content of defaultLogger and the error returned
SetDefault(cur, logger) ==
    IF logger = NilLogger
    THEN [value |-> cur, err |-> ErrNilLogger]
    ELSE [value |-> logger, err |-> NoError]

-----------------------------------------------------------------------------
(* Threads. *)

Procs == DOMAIN th

NoEvent == [kind |-> "nil", level |-> LevelNone, logger |-> Unset]

IdleThread ==
    [pc |-> "idle", op |-> "none", stack |-> <<>>, arg |-> NilLogger, err |-> NoError,
     result |-> Unset, level |-> LevelNone, msg |-> "", event |-> NoEvent,
     r |-> 0, outcome |-> "none"]

EmptyMap == [k \in {} |-> 0]

IdleGhost ==
    [inDefault |-> FALSE, window |-> {}, doneAtStart |-> FALSE, acquired |-> 0,
     reused |-> "none", applied |-> 0, emitted |-> <<>>, passed |-> EmptyMap, typeFault |-> FALSE,
     released |-> 0, gate |-> Unset, args |-> <<>>]

InitHist ==
    [lastSet |-> Unset, firstInitSaw |-> "no call", bodyRuns |-> 0, userSet |-> FALSE,
     wasDirty |-> {}, observeArgs |-> FALSE]

\* the positions inside Init()
InitPCs == {"once", "init_body", "init_new"}

\* a thread entering Init(): the first one records what it finds installed
EnterInit(h) ==
    IF h.firstInitSaw = "no call"
    THEN [h EXCEPT !.firstInitSaw = IF IsLogger(defaultLogger) THEN "installed" ELSE "unset"]
    ELSE h

\* a thread entering Default(): what the last successful SetDefault installed
EnterDefault(g) ==
    [g EXCEPT !.inDefault = TRUE, !.window = {hist.lastSet},
              !.doneAtStart = (once = "done")]

\* a successful SetDefault(logger) is seen by every Default() call in flight
Publish(g, res, logger) ==
    IF res.err # NoError THEN g
    ELSE [t \in DOMAIN g |->
            IF g[t].inDefault THEN [g[t] EXCEPT !.window = @ \cup {logger}] ELSE g[t]]

Installed(h, res, logger, byUser) ==
    IF res.err # NoError THEN h
    ELSE [h EXCEPT !.lastSet = logger, !.userSet = @ \/ byUser]

-----------------------------------------------------------------------------
(* option.go: Init, SetDefault, Default. *)

\* a caller starts Init()
CallInit(t) ==
    /\ alive /\ th[t].pc = "idle"
    /\ th' = [th EXCEPT ![t].pc = "once", ![t].op = "Init", ![t].stack = <<"init_ret">>]
    /\ hist' = EnterInit(hist)
    /\ UNCHANGED <<lifecycleVars, alive, poolVars, gh, writerVars>>

OnceDo_unguarded(t) ==
    /\ alive /\ th[t].pc = "once"
    /\ th' = [th EXCEPT ![t].pc = "init_body"]
    /\ once' = "running"
    /\ hist' = [hist EXCEPT !.bodyRuns = @ + 1]
    /\ UNCHANGED <<defaultLogger, constructed, alive, poolVars, gh, writerVars>>

OnceDo_noWait(t) ==
    /\ alive /\ th[t].pc = "once"
    /\ \/ /\ once \in {"done", "running"}
          /\ th' = [th EXCEPT ![t].pc = Head(th[t].stack), ![t].stack = Tail(@)]
          /\ UNCHANGED <<once, hist>>
       \/ /\ once = "idle"
          /\ once' = "running"
          /\ th' = [th EXCEPT ![t].pc = "init_body"]
          /\ hist' = [hist EXCEPT !.bodyRuns = @ + 1]
    /\ UNCHANGED <<defaultLogger, constructed, alive, poolVars, gh, writerVars>>

\* once.Do(f): the first caller runs f, the others wait for it to finish
OnceDo(t) ==
    /\ alive /\ th[t].pc = "once"
    /\ \/ /\ once = "done"
          /\ th' = [th EXCEPT ![t].pc = Head(th[t].stack), ![t].stack = Tail(@)]
          /\ UNCHANGED <<once, hist>>
       \/ /\ once = "idle"
          /\ once' = "running"
          /\ th' = [th EXCEPT ![t].pc = "init_body"]
          /\ hist' = [hist EXCEPT !.bodyRuns = @ + 1]
    /\ UNCHANGED <<defaultLogger, constructed, alive, poolVars, gh, writerVars>>

InitBody_ignoresInstalled(t) ==
    /\ alive /\ th[t].pc = "init_body"
    /\ th' = [th EXCEPT ![t].pc = "init_new"]
    /\ UNCHANGED <<lifecycleVars, alive, poolVars, gh, hist, writerVars>>

\* the body of Init: a logger already installed ends it
InitBody(t) ==
    /\ alive /\ th[t].pc = "init_body"
    /\ IF IsLogger(defaultLogger)
       THEN /\ once' = "done"
            /\ th' = [th EXCEPT ![t].pc = Head(th[t].stack), ![t].stack = Tail(@)]
       ELSE /\ th' = [th EXCEPT ![t].pc = "init_new"]
            /\ UNCHANGED once
    /\ UNCHANGED <<defaultLogger, constructed, alive, poolVars, gh, hist, writerVars>>

\* the body of Init: SetDefault(New()), a failure of which panics
InitNew(t) ==
    /\ alive /\ th[t].pc = "init_new"
    /\ LET logger == New("", constructed + 1)
           res == SetDefault(defaultLogger, logger)
       IN /\ constructed' = constructed + 1
          /\ defaultLogger' = res.value
          /\ once' = "done"
          /\ gh' = Publish(gh, res, logger)
          /\ hist' = Installed(hist, res, logger, FALSE)
          /\ IF res.err = NoError
             THEN th' = [th EXCEPT ![t].pc = Head(th[t].stack), ![t].stack = Tail(@)]
             ELSE th' = [th EXCEPT ![t].pc = "panicked", ![t].stack = <<>>,
                                   ![t].outcome = "panic"]
    /\ UNCHANGED <<alive, poolVars, writerVars>>

\* SetDefault(logger), called by the application
CallSetDefault(t, logger) ==
    /\ alive /\ th[t].pc = "idle"
    /\ LET res == SetDefault(defaultLogger, logger)
       IN /\ defaultLogger' = res.value
          /\ th' = [th EXCEPT ![t].pc = "setdefault_ret", ![t].op = "SetDefault",
                              ![t].arg = logger, ![t].err = res.err]
          /\ gh' = Publish(gh, res, logger)
          /\ hist' = Installed(hist, res, logger, TRUE)
    /\ UNCHANGED <<once, constructed, alive, poolVars, writerVars>>

\* a caller starts Default(): Init() first
CallDefault(t) ==
    /\ alive /\ th[t].pc = "idle"
    /\ th' = [th EXCEPT ![t].pc = "once", ![t].op = "Default",
                        ![t].stack = <<"default_load", "default_ret">>]
    /\ gh' = [gh EXCEPT ![t] = EnterDefault(@)]
    /\ hist' = EnterInit(hist)
    /\ UNCHANGED <<lifecycleVars, alive, poolVars, writerVars>>

\* Default(): defaultLogger.Load().(*Logger), which panics on a nil interface
DefaultLoad(t) ==
    /\ alive /\ th[t].pc = "default_load"
    /\ IF IsLogger(defaultLogger)
       THEN th' = [th EXCEPT ![t].result = defaultLogger,
                             ![t].pc = Head(th[t].stack), ![t].stack = Tail(@)]
       ELSE th' = [th EXCEPT ![t].pc = "panicked", ![t].stack = <<>>,
                             ![t].outcome = "panic"]
    /\ gh' = [gh EXCEPT ![t].inDefault = FALSE]
    /\ UNCHANGED <<lifecycleVars, alive, poolVars, hist, writerVars>>

ReturnPCs == {"init_ret", "default_ret", "setdefault_ret", "log_ret", "panicked"}

\* the call returns (or its panic is recovered) and the thread goes on
Return(t) ==
    /\ alive /\ th[t].pc \in ReturnPCs
    /\ th' = [th EXCEPT ![t] = IdleThread]
    /\ gh' = [gh EXCEPT ![t] = IdleGhost]
    /\ UNCHANGED <<lifecycleVars, alive, poolVars, hist, writerVars>>

-----------------------------------------------------------------------------
(* option.go: the Record, its attributes and the attribute setters. *)

kindAny == 0
kindBool == 1
kindDuration == 2
kindFloat64 == 3
kindFloat32 == 4
kindInt64 == 5
kindString == 6
kindTime == 7
kindUint64 == 8

callerSkipFrames == 3

\* a Go value: its dynamic type and its payload
Val(type, v) == [type |-> type, val |-> v]
NilValue == Val("nil", 0)

\* 32- and 64-bit words are held as 16-bit limbs, most significant first
Limb == 2 ^ 16

\* keys are strings, held as sequences of characters
Space == {" ", "\t", "\n"}

RECURSIVE TrimLeft(_)
TrimLeft(k) == IF k # <<>> /\ Head(k) \in Space THEN TrimLeft(Tail(k)) ELSE k

RECURSIVE TrimRight(_)
TrimRight(k) ==
    IF k # <<>> /\ k[Len(k)] \in Space THEN TrimRight(SubSeq(k, 1, Len(k) - 1)) ELSE k

\* strings.TrimSpace
TrimSpace(k) == TrimRight(TrimLeft(k))

\* uint64(x) of an int64 x with |x| < 2^16: two's complement
Uint64OfInt64(x) ==
    IF x >= 0 THEN <<0, 0, 0, x % Limb>>
    ELSE <<Limb - 1, Limb - 1, Limb - 1, (Limb + x) % Limb>>

\* the float values of the model, by name, and their IEEE-754 bit patterns
Float32bits(f) ==
    CASE f = "+0" -> <<0, 0>>
      [] f = "-0" -> <<32768, 0>>
      [] f = "1.5" -> <<16320, 0>>
      [] f = "+Inf" -> <<32640, 0>>
      [] f = "-Inf" -> <<65408, 0>>
      [] f = "NaN" -> <<32704, 0>>
      [] f = "NaN.1" -> <<32704, 1>>

Float64bits(f) ==
    CASE f = "+0" -> <<0, 0, 0, 0>>
      [] f = "-0" -> <<32768, 0, 0, 0>>
      [] f = "1.5" -> <<16376, 0, 0, 0>>
      [] f = "+Inf" -> <<32752, 0, 0, 0>>
      [] f = "-Inf" -> <<65520, 0, 0, 0>>
      [] f = "NaN" -> <<32760, 0, 0, 0>>
      [] f = "NaN.1" -> <<32760, 0, 0, 1>>

\* a Record fresh from recPool.New
EmptyRecord == [attrs |-> EmptyMap, ctx |-> NilValue, err |-> NilValue, msg |-> ""]

addAttr_noTrim(r, key, value, kind) ==
    IF key # <<>> /\ value # NilValue
    THEN [r EXCEPT !.attrs =
             [x \in DOMAIN r.attrs \cup {key} |->
                 IF x = key THEN [value |-> value, kind |-> kind] ELSE r.attrs[x]]]
    ELSE r

addAttr_keepsFirst(r, key, value, kind) ==
    LET k == TrimSpace(key)
    IN IF k # <<>> /\ value # NilValue
       THEN [r EXCEPT !.attrs =
                [x \in DOMAIN r.attrs \cup {k} |->
                    IF x \in DOMAIN r.attrs THEN r.attrs[x]
                    ELSE [value |-> value, kind |-> kind]]]
       ELSE r

\* Record.addAttr
addAttr(r, key, value, kind) ==
    LET k == TrimSpace(key)
    IN IF k # <<>> /\ value # NilValue
       THEN [r EXCEPT !.attrs =
                [x \in DOMAIN r.attrs \cup {k} |->
                    IF x = k THEN [value |-> value, kind |-> kind] ELSE r.attrs[x]]]
       ELSE r

\* a setter, as the caller wrote it: the function, its key and its value
Setter(fn, key, value) == [fn |-> fn, key |-> key, value |-> value]

\* what applying the setter does to the Record
Apply(s, r) ==
    CASE s.fn = "Any" -> addAttr(r, s.key, s.value, kindAny)
      [] s.fn = "Bool" -> addAttr(r, s.key, s.value, kindBool)
      [] s.fn = "Context" -> [r EXCEPT !.ctx = s.value]
      [] s.fn = "Duration" ->
            addAttr(r, s.key, Val("uint64", Uint64OfInt64(s.value.val)), kindDuration)
      [] s.fn = "Err" -> [r EXCEPT !.err = s.value]
      [] s.fn = "Int" -> addAttr(r, s.key, Val("int64", s.value.val), kindInt64)
      [] s.fn = "Int64" -> addAttr(r, s.key, s.value, kindInt64)
      [] s.fn = "Float32" ->
            addAttr(r, s.key, Val("uint32", Float32bits(s.value.val)), kindFloat32)
      [] s.fn = "Float64" ->
            addAttr(r, s.key, Val("uint64", Float64bits(s.value.val)), kindFloat64)
      [] s.fn = "String" -> addAttr(r, s.key, s.value, kindString)
      [] s.fn = "Time" -> addAttr(r, s.key, s.value, kindTime)
      [] s.fn = "Uint64" -> addAttr(r, s.key, s.value, kindUint64)

releaseRecord_keepsAttrs(r) == [r EXCEPT !.ctx = NilValue, !.err = NilValue, !.msg = ""]

\* releaseRecord: the fields are reset before the Record goes back to the pool
releaseRecord(r) ==
    [r EXCEPT !.attrs = EmptyMap, !.ctx = NilValue, !.err = NilValue, !.msg = ""]

-----------------------------------------------------------------------------
(* The inputs of the model. *)

KeyInputs == {<<"u">>, <<" ", "a", "\t">>, <<" ", " ">>}

TypedSetters ==
    {Setter("Any", k, v) : k \in KeyInputs, v \in {NilValue, Val("string", "x")}}
    \cup {Setter("Bool", k, Val("bool", TRUE)) : k \in KeyInputs}
    \cup {Setter("Duration", k, Val("duration", -1)) : k \in KeyInputs}
    \cup {Setter("Float32", k, Val("float32", "NaN.1")) : k \in KeyInputs}
    \cup {Setter("Float64", k, Val("float64", "-0")) : k \in KeyInputs}
    \cup {Setter("Int", k, Val("int", 3)) : k \in KeyInputs}
    \cup {Setter("Int64", k, Val("int64", -7)) : k \in KeyInputs}
    \cup {Setter("String", k, Val("string", "alice")) : k \in KeyInputs}
    \cup {Setter("Time", k, Val("time", [wall |-> 10, mono |-> 77])) : k \in KeyInputs}
    \cup {Setter("Uint64", k, Val("uint64", <<Limb - 1, Limb - 1, Limb - 1, Limb - 1>>)) :
            k \in KeyInputs}

Setters ==
    TypedSetters
    \cup {Setter("Context", <<>>, Val("context", "ctx1"))}
    \cup {Setter("Err", <<>>, e) : e \in {Val("error", "boom"), NilValue}}

Messages == {"", "hello"}

-----------------------------------------------------------------------------
(* The sink: what the event builder of the underlying logger does. *)

\* the logger's level gate: the "disabled" threshold admits nothing
should(logger, level) == logger.level # LevelDisabled /\ level >= logger.level

\* Logger.Debug() ... Logger.Panic(): an event, or nil when the gate is shut
newEvent(logger, level) ==
    IF should(logger, level)
    THEN [kind |-> "event", level |-> level, logger |-> logger]
    ELSE NoEvent

\* the hook the sink runs once the event is finalised, and also when the
\* gate is shut: Fatal ends the process, Panic panics
done(level) ==
    CASE level = LevelFatal -> "exit"
      [] level = LevelPanic -> "panic"
      [] OTHER -> "return"

-----------------------------------------------------------------------------
(* option.go: Log and handleEvent. *)

\* the dynamic type each type assertion of handleEvent demands
AssertedType(kind) ==
    CASE kind = kindBool -> "bool"
      [] kind = kindDuration -> "duration"
      [] kind = kindFloat32 -> "float32"
      [] kind = kindFloat64 -> "float64"
      [] kind = kindInt64 -> "int64"
      [] kind = kindString -> "string"
      [] kind = kindTime -> "time"
      [] kind = kindUint64 -> "uint64"
      [] OTHER -> "any"

\* the typed field call of the sink an attribute is handed to
FieldCall(kind) ==
    CASE kind = kindAny -> "Any"
      [] kind = kindBool -> "Bool"
      [] kind = kindDuration -> "Dur"
      [] kind = kindFloat32 -> "Float32"
      [] kind = kindFloat64 -> "Float64"
      [] kind = kindInt64 -> "Int64"
      [] kind = kindString -> "Str"
      [] kind = kindTime -> "Time"
      [] kind = kindUint64 -> "Uint64"
      [] OTHER -> "none"

\* attr.value.(T) fails: the value held is not of the type the kind demands
AssertionFails(attr) ==
    /\ AssertedType(attr.kind) # "any"
    /\ attr.value.type # AssertedType(attr.kind)

\* the range over r.attrs panics at the first attribute whose assertion fails
TransferPanics(r) == \E k \in DOMAIN r.attrs : AssertionFails(r.attrs[k])

\* the fields the range over r.attrs hands to the event
Fields(r) ==
    [k \in {x \in DOMAIN r.attrs : FieldCall(r.attrs[x].kind) # "none"} |->
        [call |-> FieldCall(r.attrs[k].kind), value |-> r.attrs[k].value]]

\* the event e.Msg(msg) writes
Emitted(e, r, m) ==
    [level |-> e.level, msg |-> m, skip |-> callerSkipFrames, ctx |-> r.ctx,
     err |-> r.err, fields |-> Fields(r)]

EventNonNil_always(e) == TRUE

\* Log: if event != nil
EventNonNil(e) == e # NoEvent

\* Log: the test on GetLevel() made before a debug or trace event is built
PreCheck(level, lvl) ==
    IF level = LevelDebug THEN lvl = LevelDebug \/ lvl = LevelTrace
    ELSE lvl = LevelTrace

\* the levels the switch of Log has a case for
SwitchLevels ==
    {LevelDebug, LevelError, LevelFatal, LevelInfo, LevelPanic, LevelTrace, LevelWarn}

\* one more Default() call of the running Log call, then on to `next`
DefaultThen(t, next) ==
    /\ th' = [th EXCEPT ![t].pc = "once", ![t].stack = <<"default_load", next>>]
    /\ gh' = [gh EXCEPT ![t] = EnterDefault([@ EXCEPT !.gate = th[t].result])]
    /\ hist' = EnterInit(hist)

\* a caller starts Log(level, msg, args...) (or Debug, Info, ... which call it)
CallLog(t, level, m) ==
    /\ alive /\ th[t].pc = "idle"
    /\ IF level \in SwitchLevels
       THEN /\ th' = [th EXCEPT ![t].pc = "once", ![t].op = "Log",
                         ![t].level = level, ![t].msg = m,
                         ![t].stack = <<"default_load",
                             IF level \in {LevelDebug, LevelTrace}
                             THEN "log_getlevel" ELSE "log_event">>]
            /\ gh' = [gh EXCEPT ![t] = EnterDefault(@)]
            /\ hist' = EnterInit(hist)
       ELSE /\ th' = [th EXCEPT ![t].pc = "log_ret", ![t].op = "Log",
                                ![t].level = level, ![t].msg = m,
                                ![t].outcome = "return"]
            /\ UNCHANGED <<gh, hist>>
    /\ UNCHANGED <<lifecycleVars, alive, poolVars, writerVars>>

\* Log, cases LevelDebug and LevelTrace: Default().GetLevel() decides whether
\* an event is asked for at all
LogGetLevel(t) ==
    /\ alive /\ th[t].pc = "log_getlevel"
    /\ IF PreCheck(th[t].level, th[t].result.level)
       THEN DefaultThen(t, "log_event")
       ELSE /\ th' = [th EXCEPT ![t].pc = "log_ret", ![t].outcome = "return"]
            /\ UNCHANGED <<gh, hist>>
    /\ UNCHANGED <<lifecycleVars, alive, poolVars, writerVars>>

\* Log: event = Default().<Level>(), and handleEvent only for a non-nil event
LogEvent(t) ==
    /\ th[t].pc = "log_event" /\ alive
    /\ LET e == newEvent(th[t].result, th[t].level)
           hook == IF e = NoEvent THEN done(th[t].level) ELSE "return"
       IN /\ th' = [th EXCEPT ![t].event = e,
                       ![t].outcome = IF hook = "return" /\ EventNonNil(e) THEN "none" ELSE hook,
                       ![t].pc = CASE hook = "exit" -> "exited"
                                   [] hook = "panic" -> "panicked"
                                   [] EventNonNil(e) -> "he_acquire"
                                   [] OTHER -> "log_ret"]
          /\ alive' = (hook # "exit")
    /\ UNCHANGED <<lifecycleVars, poolVars, gh, hist, writerVars>>

Held == {th[t].r : t \in Procs} \ {0}

NotHeld == DOMAIN records \ Held

\* recPool.New
recPoolNew == EmptyRecord

HeAcquire_shared(t) ==
    /\ alive /\ th[t].pc = "he_acquire"
    /\ th' = [th EXCEPT ![t].r = 1, ![t].pc = "he_args"]
    /\ gh' = [gh EXCEPT ![t].acquired = @ + 1, ![t].reused = "new"]
    /\ recPool' = recPool \ {1}
    /\ UNCHANGED <<lifecycleVars, alive, records, hist, writerVars>>

\* handleEvent: r := acquireRecord().  recPool.Get hands out a Record resting in
\* the pool; when the pool is empty, the runtime having dropped what rested in
\* it, recPool.New builds one
HeAcquire(t) ==
    /\ alive /\ th[t].pc = "he_acquire"
    /\ \/ \E id \in recPool :
            /\ recPool' = recPool \ {id}
            /\ th' = [th EXCEPT ![t].r = id, ![t].pc = "he_args"]
            /\ gh' = [gh EXCEPT ![t].acquired = @ + 1,
                         ![t].reused = IF id \in hist.wasDirty THEN "dirty" ELSE "clean"]
            /\ hist' = [hist EXCEPT !.wasDirty = @ \ {id}]
            /\ UNCHANGED records
       \/ LET id == CHOOSE x \in NotHeld : \A y \in NotHeld : x <= y
          IN /\ NotHeld # {}
             /\ recPool' = {}
             /\ records' = [i \in DOMAIN records |->
                              IF i \in NotHeld THEN recPoolNew ELSE records[i]]
             /\ th' = [th EXCEPT ![t].r = id, ![t].pc = "he_args"]
             /\ gh' = [gh EXCEPT ![t].acquired = @ + 1, ![t].reused = "new"]
             /\ hist' = [hist EXCEPT !.wasDirty = @ \ NotHeld]
    /\ UNCHANGED <<lifecycleVars, alive, writerVars>>

\* the caller's value of every key the setter has written
Passed(p, s, old, new) ==
    [k \in DOMAIN new.attrs |->
        IF k \in DOMAIN old.attrs /\ old.attrs[k] = new.attrs[k] /\ k \in DOMAIN p
        THEN p[k] ELSE [fn |-> s.fn, value |-> s.value]]

\* handleEvent: arg(r), for the next of the caller's setters
HeApply(t, s) ==
    /\ alive /\ th[t].pc = "he_args"
    /\ gh[t].applied < MaxArgs
    /\ LET old == records[th[t].r]
           new == Apply(s, old)
       IN /\ records' = [records EXCEPT ![th[t].r] = new]
          /\ gh' = [gh EXCEPT ![t].applied = @ + 1,
                              ![t].passed = Passed(@, s, old, new),
                              ![t].args = IF hist.observeArgs THEN Append(@, s) ELSE @]
    /\ UNCHANGED <<lifecycleVars, alive, th, recPool, hist, writerVars>>

\* handleEvent after the last setter: context, error and attributes go to the
\* event, e.Msg(msg) writes it and runs the hook of its level
HeEmit(t) ==
    /\ alive /\ th[t].pc = "he_args"
    /\ LET r == records[th[t].r]
           hook == done(th[t].event.level)
       IN IF TransferPanics(r)
          THEN /\ th' = [th EXCEPT ![t].pc = "he_release", ![t].outcome = "panic"]
               /\ gh' = [gh EXCEPT ![t].typeFault = TRUE]
               /\ UNCHANGED alive
          ELSE /\ gh' = [gh EXCEPT ![t].emitted =
                           Append(@, Emitted(th[t].event, r, th[t].msg))]
               /\ th' = [th EXCEPT ![t].outcome = hook,
                            ![t].pc = IF hook = "exit" THEN "exited" ELSE "he_release"]
               /\ alive' = (hook # "exit")
    /\ UNCHANGED <<lifecycleVars, poolVars, hist, writerVars>>

\* handleEvent: the deferred releaseRecord(r)
HeRelease(t) ==
    /\ alive /\ th[t].pc = "he_release"
    /\ records' = [records EXCEPT ![th[t].r] = releaseRecord(@)]
    /\ recPool' = recPool \cup {th[t].r}
    /\ th' = [th EXCEPT ![t].r = 0,
                        ![t].pc = IF th[t].outcome = "panic" THEN "panicked" ELSE "log_ret"]
    /\ hist' = [hist EXCEPT !.wasDirty =
                    IF records[th[t].r] # EmptyRecord THEN @ \cup {th[t].r} ELSE @]
    /\ gh' = [gh EXCEPT ![t].released = @ + 1]
    /\ UNCHANGED <<lifecycleVars, alive, writerVars>>

-----------------------------------------------------------------------------
(* The dispatch runs: one thread configuring the default logger and logging. *)

DispatchThreads == {1}

Init ==
    /\ defaultLogger = Unset /\ once = "idle" /\ constructed = 0 /\ alive = TRUE
    /\ th = [t \in DispatchThreads |-> IdleThread]
    /\ gh = [t \in DispatchThreads |-> IdleGhost]
    /\ hist = InitHist
    /\ records = [i \in 1..MaxRecords |-> EmptyRecord] /\ recPool = {}
    /\ writers = <<>> /\ sink = <<>> /\ wl = <<>>

Next ==
    \/ \E t \in Procs, logger \in DispatchLoggers : CallSetDefault(t, logger)
    \/ \E t \in Procs, level \in Levels, m \in Messages : CallLog(t, level, m)
    \/ \E t \in Procs : OnceDo(t)
    \/ \E t \in Procs : InitBody(t)
    \/ \E t \in Procs : InitNew(t)
    \/ \E t \in Procs : DefaultLoad(t)
    \/ \E t \in Procs : LogGetLevel(t)
    \/ \E t \in Procs : LogEvent(t)
    \/ \E t \in Procs : HeAcquire(t)
    \/ \E t \in Procs, s \in Setters : HeApply(t, s)
    \/ \E t \in Procs : HeEmit(t)
    \/ \E t \in Procs : HeRelease(t)
    \/ \E t \in Procs : Return(t)

Spec == Init /\ [][Next]_vars

-----------------------------------------------------------------------------
(* The lifecycle runs: threads calling Init, SetDefault and Default. *)

LifecycleThreads == 1..3

InitLifecycle ==
    /\ defaultLogger = Unset /\ once = "idle" /\ constructed = 0 /\ alive = TRUE
    /\ th = [t \in LifecycleThreads |-> IdleThread]
    /\ gh = [t \in LifecycleThreads |-> IdleGhost]
    /\ hist = InitHist
    /\ records = [i \in {} |-> 0] /\ recPool = {}
    /\ writers = <<>> /\ sink = <<>> /\ wl = <<>>

NextLifecycle ==
    \/ \E t \in Procs : CallInit(t)
    \/ \E t \in Procs, logger \in LifecycleLoggers : CallSetDefault(t, logger)
    \/ \E t \in Procs : CallDefault(t)
    \/ \E t \in Procs : OnceDo(t)
    \/ \E t \in Procs : InitBody(t)
    \/ \E t \in Procs : InitNew(t)
    \/ \E t \in Procs : DefaultLoad(t)
    \/ \E t \in Procs : Return(t)

SpecLifecycle == InitLifecycle /\ [][NextLifecycle]_vars

-----------------------------------------------------------------------------
(* The record runs: one thread logging through the logger Init() has built,
   the setters it hands to Log being observed one by one. *)

\* the setters of the record runs: more values of the time and float kinds
RecordSetters ==
    Setters
    \cup {Setter("Time", <<"u">>, Val("time", [wall |-> 10, mono |-> 0]))}
    \cup {Setter("Float32", <<"u">>, Val("float32", f)) : f \in {"-0", "+Inf"}}
    \cup {Setter("Float64", <<"u">>, Val("float64", f)) : f \in {"NaN.1", "-Inf"}}

RecordLevels == {LevelInfo, LevelFatal, LevelPanic}

InitRecord ==
    /\ defaultLogger = New("", 1) /\ once = "done" /\ constructed = 1 /\ alive = TRUE
    /\ th = [t \in DispatchThreads |-> IdleThread]
    /\ gh = [t \in DispatchThreads |-> IdleGhost]
    /\ hist = [InitHist EXCEPT !.lastSet = New("", 1), !.firstInitSaw = "unset",
                               !.bodyRuns = 1, !.observeArgs = TRUE]
    /\ records = [i \in 1..MaxRecords |-> EmptyRecord] /\ recPool = {}
    /\ writers = <<>> /\ sink = <<>> /\ wl = <<>>

NextRecord ==
    \/ \E t \in Procs, level \in RecordLevels : CallLog(t, level, "hello")
    \/ \E t \in Procs : OnceDo(t)
    \/ \E t \in Procs : DefaultLoad(t)
    \/ \E t \in Procs : LogEvent(t)
    \/ \E t \in Procs : HeAcquire(t)
    \/ \E t \in Procs, s \in RecordSetters : HeApply(t, s)
    \/ \E t \in Procs : HeEmit(t)
    \/ \E t \in Procs : HeRelease(t)
    \/ \E t \in Procs : Return(t)

SpecRecord == InitRecord /\ [][NextRecord]_vars

-----------------------------------------------------------------------------
(* The swap runs: one thread logging at the debug and trace levels while
   another thread replaces the default logger. *)

LogThread == 1
SwapThread == 2
SwapThreads == {LogThread, SwapThread}

\* the arguments of SetDefault in the swap runs: instances and levels matter
SwapLoggers == {UserLogger(1, LevelTrace), UserLogger(2, LevelDebug)}

InitSwap ==
    /\ defaultLogger = Unset /\ once = "idle" /\ constructed = 0 /\ alive = TRUE
    /\ th = [t \in SwapThreads |-> IdleThread]
    /\ gh = [t \in SwapThreads |-> IdleGhost]
    /\ hist = InitHist
    /\ records = [i \in 1..MaxRecords |-> EmptyRecord] /\ recPool = {}
    /\ writers = <<>> /\ sink = <<>> /\ wl = <<>>

NextSwap ==
    \/ \E logger \in SwapLoggers : CallSetDefault(SwapThread, logger)
    \/ \E level \in {LevelDebug, LevelTrace} : CallLog(LogThread, level, "hello")
    \/ \E t \in Procs : OnceDo(t)
    \/ \E t \in Procs : InitBody(t)
    \/ \E t \in Procs : InitNew(t)
    \/ \E t \in Procs : DefaultLoad(t)
    \/ \E t \in Procs : LogGetLevel(t)
    \/ \E t \in Procs : LogEvent(t)
    \/ \E t \in Procs : HeAcquire(t)
    \/ \E t \in Procs, s \in {Setter("String", <<"u">>, Val("string", "alice"))} :
            HeApply(t, s)
    \/ \E t \in Procs : HeEmit(t)
    \/ \E t \in Procs : HeRelease(t)
    \/ \E t \in Procs : Return(t)

SpecSwap == InitSwap /\ [][NextSwap]_vars

-----------------------------------------------------------------------------
(* The pool runs: two threads logging at once through the logger Init() has
   built, sharing recPool. *)

PoolThreads == {1, 2}

PoolSetters ==
    {Setter("String", <<"u">>, Val("string", "alice")),
     Setter("Context", <<>>, Val("context", "ctx1")),
     Setter("Err", <<>>, Val("error", "boom"))}

InitPool ==
    /\ defaultLogger = New("", 1) /\ once = "done" /\ constructed = 1 /\ alive = TRUE
    /\ th = [t \in PoolThreads |-> IdleThread]
    /\ gh = [t \in PoolThreads |-> IdleGhost]
    /\ hist = [InitHist EXCEPT !.lastSet = New("", 1), !.firstInitSaw = "unset",
                               !.bodyRuns = 1, !.observeArgs = TRUE]
    /\ records = [i \in 1..MaxRecords |-> EmptyRecord] /\ recPool = {}
    /\ writers = <<>> /\ sink = <<>> /\ wl = <<>>

NextPool ==
    \/ \E t \in Procs, level \in {LevelInfo} : CallLog(t, level, "hello")
    \/ \E t \in Procs : OnceDo(t)
    \/ \E t \in Procs : DefaultLoad(t)
    \/ \E t \in Procs : LogEvent(t)
    \/ \E t \in Procs : HeAcquire(t)
    \/ \E t \in Procs, s \in PoolSetters : HeApply(t, s)
    \/ \E t \in Procs : HeEmit(t)
    \/ \E t \in Procs : HeRelease(t)
    \/ \E t \in Procs : Return(t)

SpecPool == InitPool /\ [][NextPool]_vars

-----------------------------------------------------------------------------
(* level.go: LevelWriter, and prepareFileWriters of option.go. *)

\* the thresholds the runs hand to prepareFileWriters
WriterLevels == {LevelDebug, LevelWarn, LevelDisabled}

LevelLists == UNION {[1..n -> WriterLevels] : n \in 0..MaxWriters}

\* the byte slices written
ByteSlices == {<<>>, <<104>>, <<104, 105>>}

\* what the wrapped io.Writer may return for Write(p)
SinkResults(p) ==
    {[n |-> Len(p), err |-> NoError]}
    \cup {[n |-> k, err |-> "write failed"] : k \in 0..Len(p)}

\* prepareFileWriters: one LevelWriter per level, all on the same rotating file
prepareFileWriters(file, levels) ==
    IF Len(levels) = 0 THEN <<>>
    ELSE [i \in 1..Len(levels) |-> [Writer |-> file, Level |-> levels[i]]]

WriteLevel_strict(w, level, p, sinkRes) ==
    IF level > w.Level
    THEN [forward |-> TRUE, ret |-> sinkRes]
    ELSE [forward |-> FALSE, ret |-> [n |-> Len(p), err |-> NoError]]

\* LevelWriter.WriteLevel: whether p goes to w.Writer, and the (n, err) returned
WriteLevel(w, level, p, sinkRes) ==
    IF level >= w.Level
    THEN [forward |-> TRUE, ret |-> sinkRes]
    ELSE [forward |-> FALSE, ret |-> [n |-> Len(p), err |-> NoError]]

\* the file writers are built, on a rotating file of their own
PrepareWriters(levels) ==
    /\ writers' = prepareFileWriters("lj", levels)
    /\ sink' = <<>>
    /\ wl' = <<>>
    /\ UNCHANGED <<lifecycleVars, alive, th, poolVars, gh, hist>>

\* the sink of the logger calls WriteLevel on one of the writers
CallWriteLevel(i, level, p) ==
    /\ i \in DOMAIN writers
    /\ Len(sink) < MaxWrites
    /\ \E sinkRes \in SinkResults(p) :
         LET res == WriteLevel(writers[i], level, p, sinkRes)
         IN /\ sink' = IF res.forward THEN Append(sink, p) ELSE sink
            /\ wl' = [writer |-> i, level |-> level, p |-> p, ret |-> res.ret,
                      before |-> sink, sinkRet |-> sinkRes]
    /\ UNCHANGED <<lifecycleVars, alive, th, poolVars, gh, hist, writers>>

InitWriter ==
    /\ defaultLogger = Unset /\ once = "idle" /\ constructed = 0 /\ alive = TRUE
    /\ th = [t \in {} |-> IdleThread]
    /\ gh = [t \in {} |-> IdleGhost]
    /\ hist = InitHist
    /\ records = [i \in {} |-> 0] /\ recPool = {}
    /\ writers = <<>> /\ sink = <<>> /\ wl = <<>>

NextWriter ==
    \/ \E levels \in LevelLists : PrepareWriters(levels)
    \/ \E i \in 1..(MaxWriters + 1), level \in Levels, p \in ByteSlices :
          CallWriteLevel(i, level, p)

SpecWriter == InitWriter /\ [][NextWriter]_vars

-----------------------------------------------------------------------------
(* The claims. *)

\* a level is admitted iff its ordinal is at least the minimum; the
\* "disabled" minimum admits nothing
Admits(min, level) == min # LevelDisabled /\ level >= min

\* the Log call of thread t has ended: returned, panicked or ended the process
LogEnded(t) == th[t].op = "Log" /\ th[t].pc \in {"log_ret", "panicked", "exited"}

\* C1: with the default logger's minimum level at L2, Log(L1, ...) for a named
\* level L1 < L2 emits no event, Log(L, ...) for every named level L >= L2
\* emits exactly one event, and under the "disabled" minimum nothing is emitted.
C1_LevelGate ==
    \A t \in Procs :
        (LogEnded(t) /\ th[t].level \in NamedLevels /\ IsLogger(defaultLogger)) =>
            LET min == defaultLogger.level
                n == Len(gh[t].emitted)
            IN /\ (min \in NamedLevels /\ th[t].level < min) => n = 0
               /\ (min \in NamedLevels /\ th[t].level >= min) => n = 1
               /\ (min = LevelDisabled) => n = 0

\* C2: a logging call at a level the configured minimum does not admit
\* acquires no Record, applies no setter and writes nothing.
C2_SuppressedIsNoOp ==
    \A t \in Procs :
        (th[t].op = "Log" /\ IsLogger(defaultLogger)
            /\ ~Admits(defaultLogger.level, th[t].level)) =>
            /\ gh[t].acquired = 0
            /\ gh[t].applied = 0
            /\ gh[t].emitted = <<>>
            /\ th[t].r = 0

C2_Witness ==
    \E t \in Procs :
        /\ LogEnded(t) /\ th[t].level = LevelDebug
        /\ IsLogger(defaultLogger) /\ defaultLogger.level = LevelInfo
        /\ th[t].outcome = "return" /\ gh[t].acquired = 0
        /\ recPool # {}

\* the typed field the caller's setter asks for
ExpectedField(p) ==
    CASE p.fn = "Any" -> [call |-> "Any", value |-> p.value]
      [] p.fn = "Bool" -> [call |-> "Bool", value |-> p.value]
      [] p.fn = "Duration" -> [call |-> "Dur", value |-> p.value]
      [] p.fn = "Float32" -> [call |-> "Float32", value |-> p.value]
      [] p.fn = "Float64" -> [call |-> "Float64", value |-> p.value]
      [] p.fn = "Int" -> [call |-> "Int64", value |-> Val("int64", p.value.val)]
      [] p.fn = "Int64" -> [call |-> "Int64", value |-> p.value]
      [] p.fn = "String" -> [call |-> "Str", value |-> p.value]
      [] p.fn = "Time" -> [call |-> "Time", value |-> p.value]
      [] p.fn = "Uint64" -> [call |-> "Uint64", value |-> p.value]

\* C3: every admitted logging call, whatever setters it is given, emits
\* exactly one event, with the requested level, the given message and, for
\* each key the Record holds, one field with the value the caller passed.
C3_OneEventPerAdmittedCall ==
    \A t \in Procs :
        (LogEnded(t) /\ th[t].level \in NamedLevels /\ IsLogger(defaultLogger)
            /\ Admits(defaultLogger.level, th[t].level)) =>
            /\ Len(gh[t].emitted) = 1
            /\ LET e == gh[t].emitted[1]
               IN /\ e.level = th[t].level
                  /\ e.msg = th[t].msg
                  /\ DOMAIN e.fields = DOMAIN gh[t].passed
                  /\ \A k \in DOMAIN e.fields : e.fields[k] = ExpectedField(gh[t].passed[k])

\* C4: every attribute a setter stores holds a value of the type the
\* dispatcher asserts for its kind, and no logging call fails on an assertion.
C4_StoredTypeMatchesKind ==
    \A t \in Procs :
        /\ ~gh[t].typeFault
        /\ th[t].r # 0 =>
              \A k \in DOMAIN records[th[t].r].attrs :
                  LET a == records[th[t].r].attrs[k]
                  IN a.kind # kindAny => a.value.type = AssertedType(a.kind)

\* C5: every Record acquireRecord returns has no attributes, an empty message,
\* no context and no error, whatever its previous holder set.
C5_AcquiredRecordIsCleared ==
    \A t \in Procs :
        (th[t].pc = "he_args" /\ gh[t].applied = 0) =>
            /\ DOMAIN records[th[t].r].attrs = {}
            /\ records[th[t].r].msg = ""
            /\ records[th[t].r].ctx = NilValue
            /\ records[th[t].r].err = NilValue

C5_Witness ==
    \E t \in Procs :
        /\ th[t].pc = "he_args" /\ gh[t].applied = 0
        /\ gh[t].reused = "dirty"
        /\ records[th[t].r] = EmptyRecord

\* C6: WriteLevel(L, p) on a writer of threshold T hands p to the wrapped sink
\* and returns the sink's (n, err) when L >= T; when L < T the sink receives
\* nothing and (len(p), nil) is returned; only the called writer's threshold
\* decides.
C6_WriteLevel ==
    wl # <<>> =>
        IF wl.level >= writers[wl.writer].Level
        THEN sink = Append(wl.before, wl.p) /\ wl.ret = wl.sinkRet
        ELSE sink = wl.before /\ wl.ret = [n |-> Len(wl.p), err |-> NoError]

C6_Witness ==
    /\ wl # <<>>
    /\ wl.level = LevelInfo /\ wl.p # <<>>
    /\ writers[wl.writer].Level = LevelWarn
    /\ \E j \in DOMAIN writers : writers[j].Level = LevelDebug
    /\ sink # <<>> /\ sink = wl.before
    /\ wl.ret = [n |-> Len(wl.p), err |-> NoError]

\* a step of thread t inside Init()
InitStep(t) == th[t].pc \in InitPCs /\ th'[t] # th[t]

\* C7: however Init() and Default() calls interleave, the body of Init runs at
\* most once and builds at most one logger, exactly one when no SetDefault
\* came first; an Init() call made after that changes nothing.
C7_InitOnce ==
    /\ [](/\ hist.bodyRuns <= 1
          /\ constructed <= 1
          /\ (once = "done" /\ ~hist.userSet) =>
                (hist.bodyRuns = 1 /\ constructed = 1 /\ defaultLogger = New("", 1)))
    /\ [][\A t \in Procs : (once = "done" /\ InitStep(t)) => UNCHANGED lifecycleVars]_vars

C7_Witness ==
    /\ once = "done" /\ constructed = 1 /\ ~hist.userSet
    /\ \E t, u \in Procs :
         /\ t # u
         /\ th[t].pc = "init_ret"
         /\ th[u].pc = "default_ret" /\ th[u].result = New("", 1)

\* C8: SetDefault(nil) returns an error and leaves the default logger as it
\* was; SetDefault(l) for a logger l returns no error and, in that one step,
\* makes l the default logger.
C8_SetDefault ==
    [][\A t \in Procs :
          (th[t].pc = "idle" /\ th'[t].op = "SetDefault") =>
              IF th'[t].arg = NilLogger
              THEN th'[t].err # NoError /\ defaultLogger' = defaultLogger
              ELSE th'[t].err = NoError /\ defaultLogger' = th'[t].arg]_vars

C8_Witness ==
    \E t, u \in Procs :
        /\ th[t].pc = "setdefault_ret" /\ th[t].arg = NilLogger
        /\ th[t].err = ErrNilLogger
        /\ th[u].pc = "setdefault_ret" /\ th[u].arg = defaultLogger

\* C9: once initialization is over, a Default() call returns the logger of
\* the last SetDefault that succeeded before the call began, or of one that
\* succeeded while the call ran: never anything else.
C9_DefaultSeesSetDefault ==
    \A t \in Procs :
        (th[t].op = "Default" /\ th[t].pc = "default_ret" /\ gh[t].doneAtStart) =>
            th[t].result \in gh[t].window

C9_Witness ==
    \E t \in Procs :
        /\ th[t].op = "Default" /\ th[t].pc = "default_ret" /\ gh[t].doneAtStart
        /\ constructed = 1
        /\ gh[t].window = {UserLogger(2, LevelDebug)}
        /\ th[t].result = UserLogger(2, LevelDebug)

\* C10: with a logger installed by SetDefault before the first Init() call
\* begins, Init() builds no logger and the default logger stays the one
\* SetDefault installed.
C10_InitKeepsInstalled ==
    hist.firstInitSaw = "installed" =>
        /\ constructed = 0
        /\ defaultLogger = hist.lastSet
        /\ defaultLogger.kind = "user"

C10_Witness ==
    /\ hist.firstInitSaw = "installed" /\ once = "done"
    /\ \E t, u \in Procs :
         /\ th[t].pc = "init_ret"
         /\ th[u].pc = "default_ret" /\ th[u].result = UserLogger(1, LevelDebug)

\* the functions that build a setter with a key
KeyedFns ==
    {"Any", "Bool", "Duration", "Float32", "Float64", "Int", "Int64", "String",
     "Time", "Uint64"}

\* the key is empty once its leading and trailing white space is gone
Blank(key) == \A i \in 1..Len(key) : key[i] \in Space

\* the key is not empty and has no white space at either end
Trimmed(key) == key # <<>> /\ key[1] \notin Space /\ key[Len(key)] \notin Space

\* C11: a setter whose key is empty after trimming, or Any(key, nil), leaves
\* the attributes, context, error and message of the Record as they were and
\* does not panic; every key a Record holds is non-empty and trimmed.
C11_BlankKeyOrNilIsNoOp ==
    /\ [](\A t \in Procs :
            th[t].r # 0 => \A k \in DOMAIN records[th[t].r].attrs : Trimmed(k))
    /\ [][\A t \in Procs :
            Len(gh'[t].args) = Len(gh[t].args) + 1 =>
                LET s == gh'[t].args[Len(gh'[t].args)]
                IN ((s.fn \in KeyedFns /\ Blank(s.key))
                        \/ (s.fn = "Any" /\ s.value = NilValue)) =>
                      /\ records'[th[t].r] = records[th[t].r]
                      /\ th'[t] = th[t]]_vars

C11_Witness ==
    \E t \in Procs :
        /\ th[t].pc = "he_args" /\ Len(gh[t].args) = 2
        /\ gh[t].args[1] = Setter("Int", <<" ", "a", "\t">>, Val("int", 3))
        /\ gh[t].args[2] = Setter("String", <<" ", " ">>, Val("string", "alice"))
        /\ DOMAIN records[th[t].r].attrs = {<<"a">>}

\* the positions in args of the setters given for the key k (after trimming)
GivenFor(args, k) ==
    {i \in 1..Len(args) : args[i].fn \in KeyedFns /\ TrimSpace(args[i].key) = k}

\* the positions in args of the setters for the key k that carry a value
StoringFor(args, k) == {i \in GivenFor(args, k) : args[i].value # NilValue}

\* the positions in args of the calls of the setter function fn
CallsOf(args, fn) == {i \in 1..Len(args) : args[i].fn = fn}

Last(S) == CHOOSE i \in S : \A j \in S : j <= i

\* the kind and the value of the setter s, as s alone hands them to addAttr
AttrOf(s) ==
    IF s.value = NilValue THEN [value |-> NilValue, kind |-> kindAny]
    ELSE Apply(Setter(s.fn, <<"k">>, s.value), EmptyRecord).attrs[<<"k">>]

\* the keys, after trimming, of the setters of args
KeysOf(args) ==
    {TrimSpace(args[i].key) : i \in {j \in 1..Len(args) : args[j].fn \in KeyedFns}}
        \ {<<>>}

\* the context and the error of r are those of the last Context and Err setter
LastContextAndErr(args, r) ==
    /\ r.ctx = IF CallsOf(args, "Context") = {} THEN NilValue
               ELSE args[Last(CallsOf(args, "Context"))].value
    /\ r.err = IF CallsOf(args, "Err") = {} THEN NilValue
               ELSE args[Last(CallsOf(args, "Err"))].value

\* C12 (as amended): the setters are applied in the order given; for each key,
\* compared after trimming, the Record holds exactly one attribute, that of the
\* last setter given for the key with a value that is not nil; the context and
\* the error are those of the last Context and the last Err setter.
C12_LastStoringSetterWins ==
    \A t \in Procs :
        th[t].pc = "he_args" =>
            LET args == gh[t].args
                r == records[th[t].r]
            IN /\ DOMAIN r.attrs = {k \in KeysOf(args) : StoringFor(args, k) # {}}
               /\ \A k \in DOMAIN r.attrs :
                      r.attrs[k] = AttrOf(args[Last(StoringFor(args, k))])
               /\ LastContextAndErr(args, r)

C12_Witness ==
    \E t \in Procs :
        /\ th[t].pc = "he_args" /\ Len(gh[t].args) = 2
        /\ gh[t].args[1] = Setter("String", <<"u">>, Val("string", "alice"))
        /\ gh[t].args[2] = Setter("Int", <<"u">>, Val("int", 3))
        /\ records[th[t].r].attrs[<<"u">>] = [value |-> Val("int64", 3), kind |-> kindInt64]

\* C12 (as stated): for each key, compared after trimming, the Record holds
\* exactly one attribute, the kind and value of the last setter given for it.
C12_LastSetterWins ==
    \A t \in Procs :
        th[t].pc = "he_args" =>
            LET args == gh[t].args
                r == records[th[t].r]
            IN /\ DOMAIN r.attrs = KeysOf(args)
               /\ \A k \in DOMAIN r.attrs :
                      r.attrs[k] = AttrOf(args[Last(GivenFor(args, k))])
               /\ LastContextAndErr(args, r)

\* C13: the attribute stored by Time(key, t) holds the wall-clock time of t
\* and no monotonic-clock reading, so that two timestamps with the same wall
\* time store the same value.
C13_TimeStoresWallClockOnly ==
    \A t \in Procs :
        th[t].pc = "he_args" =>
            \A i \in 1..Len(gh[t].args) :
                LET s == gh[t].args[i]
                    k == TrimSpace(s.key)
                IN (s.fn = "Time" /\ ~Blank(s.key) /\ StoringFor(gh[t].args, k) # {}
                        /\ Last(StoringFor(gh[t].args, k)) = i) =>
                       /\ records[th[t].r].attrs[k].kind = kindTime
                       /\ records[th[t].r].attrs[k].value.val.wall = s.value.val.wall
                       /\ records[th[t].r].attrs[k].value.val.mono = 0

\* C14: every Fatal call records its event and then ends the process, every
\* Panic call emits its event and then unwinds the caller; the event comes
\* before the end, and neither call returns normally.
C14_FatalAndPanicEmitThenEnd ==
    \A t \in Procs :
        (LogEnded(t) /\ th[t].level \in {LevelFatal, LevelPanic}) =>
            /\ Len(gh[t].emitted) = 1
            /\ gh[t].emitted[1].level = th[t].level
            /\ th[t].level = LevelFatal => th[t].pc = "exited"
            /\ th[t].level = LevelPanic => th[t].pc = "panicked"

\* C15: every acquireRecord of the dispatcher is followed by exactly one
\* releaseRecord of the same Record on every way out of the dispatch: normal
\* return, a panic while the setters or the transfer run, the sink unwinding at
\* the panic level, the sink ending the process at the fatal level.
C15_ReleasedOnEveryExit ==
    \A t \in Procs :
        /\ gh[t].released <= gh[t].acquired
        /\ (LogEnded(t) /\ gh[t].acquired = 1) =>
               /\ gh[t].released = 1
               /\ th[t].r = 0

\* C16: Float32(key, v) and Float64(key, v) store the IEEE-754 bit pattern of v
\* as an unsigned integer under the float kind of the same width, and the
\* dispatcher's decoding of the stored attribute gives the event the value v.
C16_FloatRoundTrip ==
    \A t \in Procs :
        \A i \in 1..Len(gh[t].args) :
            LET s == gh[t].args[i]
                k == TrimSpace(s.key)
                last == StoringFor(gh[t].args, k) # {}
                            /\ Last(StoringFor(gh[t].args, k)) = i
            IN (s.fn \in {"Float32", "Float64"} /\ ~Blank(s.key) /\ last) =>
                  /\ th[t].pc = "he_args" =>
                        records[th[t].r].attrs[k] =
                            IF s.fn = "Float32"
                            THEN [value |-> Val("uint32", Float32bits(s.value.val)),
                                  kind |-> kindFloat32]
                            ELSE [value |-> Val("uint64", Float64bits(s.value.val)),
                                  kind |-> kindFloat64]
                  /\ LogEnded(t) =>
                        /\ Len(gh[t].emitted) = 1
                        /\ gh[t].emitted[1].fields[k] = [call |-> s.fn, value |-> s.value]

\* the Log call of t has passed the debug/trace pre-check and has gone on to
\* ask the default logger for the event
AskedForEvent(t) ==
    /\ th[t].op = "Log" /\ gh[t].gate # Unset
    /\ th[t].pc \in {"he_acquire", "he_args", "he_release", "log_ret", "panicked", "exited"}

\* C17: within one Log call at the debug or trace level, the logger whose
\* level the pre-check reads and the logger that creates and emits the event
\* are the same default-logger value, whatever SetDefault calls run meanwhile.
C17_OneLoggerPerCall ==
    \A t \in Procs :
        AskedForEvent(t) =>
            /\ th[t].result = gh[t].gate
            /\ th[t].event # NoEvent => th[t].event.logger = gh[t].gate

\* the Record the setters of args build on their own, from an empty Record
RECURSIVE ApplyAll(_)
ApplyAll(args) ==
    IF args = <<>> THEN EmptyRecord
    ELSE Apply(args[Len(args)], ApplyAll(SubSeq(args, 1, Len(args) - 1)))

\* C18: with logging calls running at once, a Record is held by at most one
\* dispatch between its acquire and its release, and the event a call emits
\* carries the attributes, context and error of that call's setters alone.
C18_RecordsAreExclusive ==
    /\ \A t, u \in Procs : (t # u /\ th[t].r # 0) => th[t].r # th[u].r
    /\ \A t \in Procs : th[t].r # 0 => th[t].r \notin recPool
    /\ \A t \in Procs :
          /\ th[t].pc = "he_args" => records[th[t].r] = ApplyAll(gh[t].args)
          /\ Len(gh[t].emitted) = 1 =>
                gh[t].emitted[1] = Emitted(th[t].event, ApplyAll(gh[t].args), th[t].msg)

C18_Witness ==
    /\ th[1].pc = "he_release" /\ th[2].pc = "he_args"
    /\ th[1].r # 0 /\ th[2].r # 0
    /\ gh[1].reused = "clean"
    /\ Len(gh[1].emitted) = 1 /\ gh[1].emitted[1].err = Val("error", "boom")
    /\ gh[2].args = <<Setter("String", <<"u">>, Val("string", "alice"))>>

\* C19: once a SetDefault(l) with a logger l has returned, the default logger
\* is l or the logger of a later SetDefault, however the call interleaves with
\* the first Init() or Default(); the logger Init builds never replaces it.
C19_AutoNeverReplacesInstalled ==
    /\ hist.userSet => defaultLogger.kind = "user"
    /\ \A t \in Procs :
          (th[t].op = "SetDefault" /\ th[t].pc = "setdefault_ret" /\ th[t].err = NoError) =>
              defaultLogger.kind = "user"

\* C20: with Init(), SetDefault(nil or a logger) and Default() running at once,
\* every Default() returns a logger and none fails on an unset singleton; once
\* an Init() has returned the default logger is set, and it stays set.
C20_DefaultNeverUnset ==
    /\ [](/\ once = "done" => IsLogger(defaultLogger)
          /\ \A t \in Procs :
                /\ th[t].pc # "panicked"
                /\ th[t].pc \in {"default_load", "init_ret"} => IsLogger(defaultLogger)
                /\ th[t].pc = "default_ret" => IsLogger(th[t].result))
    /\ [][IsLogger(defaultLogger) => IsLogger(defaultLogger')]_vars

C20_Witness ==
    \E t, u \in Procs :
        /\ th[t].pc = "default_ret" /\ th[t].result.kind = "auto"
        /\ th[u].op = "SetDefault" /\ th[u].pc = "setdefault_ret"
        /\ th[u].arg = NilLogger /\ th[u].err = ErrNilLogger
        /\ gh[t].doneAtStart = FALSE

====
